---- MODULE Spec2Model ----
(***************************************************************************)
(* Model of the plain binary search tree of src/bst.js: the BstNode        *)
(* objects (key, parent, left, right), the BinarySearchTree object (root,  *)
(* _size) and its operations.  Nodes are heap cells 1..MaxNodes.  A node   *)
(* that del unlinked keeps its fields for as long as the caller holds the  *)
(* reference to it; an object that nothing refers to any more is garbage   *)
(* and its cell is free for the next new BstNode.                          *)
(***************************************************************************)
EXTENDS Integers, Sequences, FiniteSets, TLC

\* ---- bounds ----
MaxKey == 5

\* the tree holds at most one node per key, the caller at most one more
MaxNodes == MaxKey + 1

\* the number of BstNode objects a caller constructs and links by hand
MaxLoose == 2

Keys == 1..MaxKey
Nodes == 1..MaxNodes

\* null (no node), undefined (argument not passed) and an object that is
\* not a BstNode, such as {key: -1}
Null == 0
Undefined == -1
PlainObject == -2

VARIABLES
    root,      \* BinarySearchTree.root
    size,      \* BinarySearchTree._size
    key,       \* BstNode.key, per heap cell
    left,      \* BstNode.left
    right,     \* BstNode.right
    parent,    \* BstNode.parent
    alloc,     \* the heap cells that hold a BstNode object
    held,      \* the node the last call was a delete of, null if it had none
    values,    \* history: keys inserted successfully and not deleted since
    call,      \* the method of the last mutating call, "new" at first
    err,       \* the error the last call threw, "" when it returned
    ret        \* what the last call on the tree returned: "true", "false" or
               \* "undefined", and "none" when it threw

treeVars == <<root, size, key, left, right, parent, alloc>>
vars ==
    <<root, size, key, left, right, parent, alloc, held, values, call, err, ret>>

\* the object graph as one value, so that the methods are operators on it
Heap ==
    [root |-> root, size |-> size, key |-> key, left |-> left,
     right |-> right, parent |-> parent, alloc |-> alloc]

\* ---- BstNode ----

\* the cell of the next object.  Object identity is opaque, so any free
\* cell will do: the one numbered as the key, or else the first free one
freshNode(h, k) ==
    IF k \notin h.alloc THEN k
    ELSE CHOOSE n \in Nodes \ h.alloc : \A m \in Nodes \ h.alloc : n <= m

\* new BstNode(k) in cell n, with null parent, left and right
newNode(h, n, k) ==
    [h EXCEPT !.alloc = h.alloc \cup {n},
              !.key[n] = k,
              !.parent[n] = Null,
              !.left[n] = Null,
              !.right[n] = Null]

\* typeof(node)==='object' && node instanceof BstNode: null, undefined and
\* a plain object are not cells of the heap
isBstNode(h, node) == node \in h.alloc

\* addLeft without the back-reference
addLeft_noParent(h, this, node) ==
    IF isBstNode(h, node)
    THEN [h EXCEPT !.left[this] = node]
    ELSE h

\* this.addLeft(node); when node is not a BstNode it throws and nothing
\* has been assigned
addLeft(h, this, node) ==
    IF isBstNode(h, node)
    THEN [h EXCEPT !.left[this] = node, !.parent[node] = this]
    ELSE h

\* this.addRight(node)
addRight(h, this, node) ==
    IF isBstNode(h, node)
    THEN [h EXCEPT !.right[this] = node, !.parent[node] = this]
    ELSE h

\* the error addLeft and addRight throw for this argument, "" for none
attachError(h, node) ==
    IF isBstNode(h, node) THEN "" ELSE "Invalid argument"

isLeaf(h, this) ==
    h.left[this] = Null /\ h.right[this] = Null

\* ---- BinarySearchTree: queries ----

isEmpty(h) == h.root = Null

\* searchLoop with the comparison the wrong way round
RECURSIVE searchLoop_flipped(_, _, _)
searchLoop_flipped(h, node, k) ==
    IF node # Null /\ h.key[node] # k
    THEN IF h.key[node] < k
         THEN searchLoop_flipped(h, h.left[node], k)
         ELSE searchLoop_flipped(h, h.right[node], k)
    ELSE node

\* the while loop of search, from the current node
RECURSIVE searchLoop(_, _, _)
searchLoop(h, node, k) ==
    IF node # Null /\ h.key[node] # k
    THEN IF h.key[node] > k
         THEN searchLoop(h, h.left[node], k)
         ELSE searchLoop(h, h.right[node], k)
    ELSE node

search(h, k) == searchLoop(h, h.root, k)

\* minLoop that stops at the first node that has a right child
RECURSIVE minLoop_stopsEarly(_, _)
minLoop_stopsEarly(h, node) ==
    IF node # Null /\ h.left[node] # Null /\ h.right[node] = Null
    THEN minLoop_stopsEarly(h, h.left[node])
    ELSE node

\* min(node = this.root): an argument that is not passed defaults to root
RECURSIVE minLoop(_, _)
minLoop(h, node) ==
    IF node # Null /\ h.left[node] # Null
    THEN minLoop(h, h.left[node])
    ELSE node

min(h, node) == minLoop(h, IF node = Undefined THEN h.root ELSE node)

RECURSIVE maxLoop(_, _)
maxLoop(h, node) ==
    IF node # Null /\ h.right[node] # Null
    THEN maxLoop(h, h.right[node])
    ELSE node

max(h, node) == maxLoop(h, IF node = Undefined THEN h.root ELSE node)

\* the upward walk of pred: while (p != null && p.left == node)
RECURSIVE predLoop(_, _, _)
predLoop(h, node, p) ==
    IF p # Null /\ h.left[p] = node
    THEN predLoop(h, p, h.parent[p])
    ELSE p

pred(h, node) ==
    IF node = Null THEN Null
    ELSE IF h.left[node] # Null
         THEN max(h, h.left[node])
         ELSE predLoop(h, node, h.parent[node])

predecessor(h, k) == pred(h, search(h, k))

\* the upward walk of succ: while (p != null && p.right == node)
RECURSIVE succLoop(_, _, _)
succLoop(h, node, p) ==
    IF p # Null /\ h.right[p] = node
    THEN succLoop(h, p, h.parent[p])
    ELSE p

\* succ that takes the root of the right branch for the successor
succ_rightRoot(h, node) ==
    IF node = Null THEN Null
    ELSE IF h.right[node] # Null
         THEN h.right[node]
         ELSE succLoop(h, node, h.parent[node])

succ(h, node) ==
    IF node = Null THEN Null
    ELSE IF h.right[node] # Null
         THEN min(h, h.right[node])
         ELSE succLoop(h, node, h.parent[node])

successor(h, k) == succ(h, search(h, k))

\* ---- BinarySearchTree: traversals ----

\* the while loop of checkInvariant; queue.pop() takes the last element
RECURSIVE checkLoop(_, _, _)
checkLoop(h, queue, mapUnique) ==
    IF Len(queue) = 0 THEN TRUE
    ELSE LET node == queue[Len(queue)]
             q0 == SubSeq(queue, 1, Len(queue) - 1)
         IN IF node \in mapUnique THEN FALSE
            ELSE IF h.left[node] # Null /\ h.key[h.left[node]] > h.key[node]
                 THEN FALSE
                 ELSE LET q1 == IF h.left[node] # Null
                                THEN Append(q0, h.left[node]) ELSE q0
                      IN IF h.right[node] # Null
                            /\ h.key[h.right[node]] < h.key[node]
                         THEN FALSE
                         ELSE LET q2 == IF h.right[node] # Null
                                        THEN Append(q1, h.right[node]) ELSE q1
                              IN checkLoop(h, q2, mapUnique \cup {node})

checkInvariant(h) ==
    checkLoop(h, IF ~isEmpty(h) THEN <<h.root>> ELSE <<>>, {})

\* inOrderRec that pushes the node before it visits the left subtree
RECURSIVE inOrderRec_selfFirst(_, _, _)
inOrderRec_selfFirst(h, arr, node) ==
    IF node # Null
    THEN IF isLeaf(h, node)
         THEN Append(arr, node)
         ELSE inOrderRec_selfFirst(h,
                  inOrderRec_selfFirst(h, Append(arr, node), h.left[node]),
                  h.right[node])
    ELSE arr

\* the inner function inOrderRec(arr, node) of inOrderKeys; the result is arr
RECURSIVE inOrderRec(_, _, _)
inOrderRec(h, arr, node) ==
    IF node # Null
    THEN IF isLeaf(h, node)
         THEN Append(arr, node)
         ELSE inOrderRec(h, Append(inOrderRec(h, arr, h.left[node]), node),
                         h.right[node])
    ELSE arr

\* inOrderKeys returns the array of the nodes, not of their keys
inOrderKeys(h) == inOrderRec(h, <<>>, h.root)

\* the while loop of preOrderKeys; the stack also holds the null children
RECURSIVE preOrderLoop(_, _, _)
preOrderLoop(h, arr, stack) ==
    IF Len(stack) = 0 THEN arr
    ELSE LET node == stack[Len(stack)]
             s0 == SubSeq(stack, 1, Len(stack) - 1)
         IN IF node # Null
            THEN LET a1 == IF h.left[node] # Null
                           THEN Append(arr, h.key[h.left[node]]) ELSE arr
                     a2 == IF h.right[node] # Null
                           THEN Append(a1, h.key[h.right[node]]) ELSE a1
                 IN preOrderLoop(h, a2,
                                 Append(Append(s0, h.right[node]), h.left[node]))
            ELSE preOrderLoop(h, arr, s0)

preOrderKeys(h) ==
    preOrderLoop(h, IF h.root # Null THEN <<h.key[h.root]>> ELSE <<>>,
                 <<h.root>>)

\* ---- BinarySearchTree: mutations ----

\* the while loop of insert: the node to attach to, or the duplicate found
RECURSIVE insertLoop(_, _, _, _)
insertLoop(h, node, par, k) ==
    IF node # Null
    THEN IF k = h.key[node]
         THEN [parent |-> node, dup |-> TRUE]
         ELSE IF k < h.key[node]
              THEN insertLoop(h, h.left[node], node, k)
              ELSE insertLoop(h, h.right[node], node, k)
    ELSE [parent |-> par, dup |-> FALSE]

\* insert that attaches the new node by the opposite comparison
insert_wrongSide(h, k) ==
    LET d == insertLoop(h, h.root, Null, k)
    IN IF d.dup
       THEN [heap |-> h, err |-> "Duplicate key"]
       ELSE LET n == freshNode(h, k)
                h1 == newNode(h, n, k)
                h2 == IF d.parent = Null
                      THEN [h1 EXCEPT !.root = n]
                      ELSE IF k > h1.key[d.parent]
                           THEN addLeft(h1, d.parent, n)
                           ELSE addRight(h1, d.parent, n)
            IN [heap |-> [h2 EXCEPT !.size = h2.size + 1], err |-> ""]

\* insert that counts the key before the descent can reject it
insert_countsFirst(h, k) ==
    LET d == insertLoop(h, h.root, Null, k)
        hc == [h EXCEPT !.size = h.size + 1]
    IN IF d.dup
       THEN [heap |-> hc, err |-> "Duplicate key"]
       ELSE LET n == freshNode(hc, k)
                h1 == newNode(hc, n, k)
            IN [heap |-> IF d.parent = Null
                         THEN [h1 EXCEPT !.root = n]
                         ELSE IF k < h1.key[d.parent]
                              THEN addLeft(h1, d.parent, n)
                              ELSE addRight(h1, d.parent, n),
                err |-> ""]

\* Dir
LEFT == 0
RIGHT == 1

\* _addRec(node, key, parent, direction): the heap afterwards and the error
\* thrown, "" for none; it has no return statement
RECURSIVE _addRec(_, _, _, _, _)
_addRec(h, node, k, par, direction) ==
    IF node = Null
    THEN LET n == freshNode(h, k)
             h1 == newNode(h, n, k)
         IN [heap |-> IF par \in {Null, Undefined}
                      THEN [h1 EXCEPT !.root = n]
                      ELSE IF direction = LEFT
                           THEN addLeft(h1, par, n)
                           ELSE addRight(h1, par, n),
             err |-> ""]
    ELSE IF h.key[node] = k
         THEN [heap |-> h, err |-> "Duplicate key detected"]
         ELSE IF k < h.key[node]
              THEN _addRec(h, h.left[node], k, node, LEFT)
              ELSE _addRec(h, h.right[node], k, node, RIGHT)

\* insertOld(key): the heap afterwards, the error thrown and the value
\* returned; _size is incremented before _addRec looks for the key
insertOld(h, k) ==
    IF h.root = Null
    THEN LET n == freshNode(h, k)
             h1 == newNode(h, n, k)
         IN [heap |-> [h1 EXCEPT !.root = n, !.size = h1.size + 1],
             err |-> "", ret |-> "true"]
    ELSE LET h1 == [h EXCEPT !.size = h.size + 1]
             r == _addRec(h1, h1.root, k, Undefined, Undefined)
         IN [heap |-> r.heap, err |-> r.err,
             ret |-> IF r.err = "" THEN "undefined" ELSE "none"]

\* insert(key): the heap afterwards and the error thrown, "" for none
insert(h, k) ==
    LET d == insertLoop(h, h.root, Null, k)
    IN IF d.dup
       THEN [heap |-> h, err |-> "Duplicate key"]
       ELSE LET n == freshNode(h, k)
                h1 == newNode(h, n, k)
                h2 == IF d.parent = Null
                      THEN [h1 EXCEPT !.root = n]
                      ELSE IF k < h1.key[d.parent]
                           THEN addLeft(h1, d.parent, n)
                           ELSE addRight(h1, d.parent, n)
            IN [heap |-> [h2 EXCEPT !.size = h2.size + 1], err |-> ""]

\* _transplant that leaves the parent of the moved subtree as it was
_transplant_keepsParent(h, nodeFrom, nodeTo) ==
    IF nodeTo = Null THEN h
    ELSE LET p == h.parent[nodeTo]
         IN IF p = Null
            THEN [h EXCEPT !.root = nodeFrom]
            ELSE IF h.left[p] = nodeTo
                 THEN [h EXCEPT !.left[p] = nodeFrom]
                 ELSE [h EXCEPT !.right[p] = nodeFrom]

_transplant(h, nodeFrom, nodeTo) ==
    IF nodeTo = Null THEN h
    ELSE LET p == h.parent[nodeTo]
             h1 == IF p = Null
                   THEN [h EXCEPT !.root = nodeFrom]
                   ELSE IF h.left[p] = nodeTo
                        THEN [h EXCEPT !.left[p] = nodeFrom]
                        ELSE [h EXCEPT !.right[p] = nodeFrom]
         IN IF nodeFrom # Null
            THEN [h1 EXCEPT !.parent[nodeFrom] = h1.parent[nodeTo]]
            ELSE h1

\* del that counts a removal before looking whether there is a node
del_countsAbsent(h, node) ==
    IF node = Null THEN [h EXCEPT !.size = h.size - 1]
    ELSE LET h9 ==
             IF h.left[node] = Null
             THEN _transplant(h, h.right[node], node)
             ELSE IF h.right[node] = Null
             THEN _transplant(h, h.left[node], node)
             ELSE LET s == min(h, h.right[node])
                      h1 == IF h.right[node] # s
                            THEN LET t1 == _transplant(h, h.right[s], s)
                                     t2 == [t1 EXCEPT !.right[s] = t1.right[node]]
                                 IN [t2 EXCEPT !.parent[t2.right[s]] = s]
                            ELSE h
                      h2 == _transplant(h1, s, node)
                      h3 == [h2 EXCEPT !.left[s] = h2.left[node]]
                  IN [h3 EXCEPT !.parent[h3.left[s]] = s]
         IN [h9 EXCEPT !.size = h9.size - 1]

\* del that leaves the right subtree of the successor under the successor
del_keepsSuccRight(h, node) ==
    IF node = Null THEN h
    ELSE LET h9 ==
             IF h.left[node] = Null
             THEN _transplant(h, h.right[node], node)
             ELSE IF h.right[node] = Null
             THEN _transplant(h, h.left[node], node)
             ELSE LET s == min(h, h.right[node])
                      h2 == _transplant(h, s, node)
                      h3 == [h2 EXCEPT !.left[s] = h2.left[node]]
                  IN [h3 EXCEPT !.parent[h3.left[s]] = s]
         IN [h9 EXCEPT !.size = h9.size - 1]

\* del that forgets to hang the left subtree under the successor
del_dropsLeft(h, node) ==
    IF node = Null THEN h
    ELSE LET h9 ==
             IF h.left[node] = Null
             THEN _transplant(h, h.right[node], node)
             ELSE IF h.right[node] = Null
             THEN _transplant(h, h.left[node], node)
             ELSE LET s == min(h, h.right[node])
                      h1 == IF h.right[node] # s
                            THEN LET t1 == _transplant(h, h.right[s], s)
                                     t2 == [t1 EXCEPT !.right[s] = t1.right[node]]
                                 IN [t2 EXCEPT !.parent[t2.right[s]] = s]
                            ELSE h
                  IN _transplant(h1, s, node)
         IN [h9 EXCEPT !.size = h9.size - 1]

del(h, node) ==
    IF node = Null THEN h
    ELSE LET h9 ==
             IF h.left[node] = Null
             THEN _transplant(h, h.right[node], node)
             ELSE IF h.right[node] = Null
             THEN _transplant(h, h.left[node], node)
             ELSE LET s == min(h, h.right[node])
                      h1 == IF h.right[node] # s
                            THEN LET t1 == _transplant(h, h.right[s], s)
                                     t2 == [t1 EXCEPT !.right[s] = t1.right[node]]
                                 IN [t2 EXCEPT !.parent[t2.right[s]] = s]
                            ELSE h
                      h2 == _transplant(h1, s, node)
                      h3 == [h2 EXCEPT !.left[s] = h2.left[node]]
                  IN [h3 EXCEPT !.parent[h3.left[s]] = s]
         IN [h9 EXCEPT !.size = h9.size - 1]

delete(h, k) == del(h, search(h, k))

\* ---- the state machine ----

\* the objects still referred to: from the given references, through every
\* field that holds a reference (left, right and parent)
RECURSIVE liveFrom(_, _, _)
liveFrom(h, frontier, seen) ==
    IF frontier = {} THEN seen
    ELSE LET s1 == seen \cup frontier
             nxt == {h.left[n] : n \in frontier}
                        \cup {h.right[n] : n \in frontier}
                        \cup {h.parent[n] : n \in frontier}
         IN liveFrom(h, (nxt \ {Null}) \ s1, s1)

\* garbage collection: the objects that neither the tree nor the reference
\* ref leads to are gone
collect(h, ref) ==
    LET live == liveFrom(h, {h.root, ref} \ {Null}, {})
    IN [h EXCEPT !.alloc = live,
                 !.key = [n \in Nodes |-> IF n \in live THEN h.key[n] ELSE 0],
                 !.left = [n \in Nodes |-> IF n \in live THEN h.left[n] ELSE Null],
                 !.right = [n \in Nodes |-> IF n \in live THEN h.right[n] ELSE Null],
                 !.parent = [n \in Nodes |-> IF n \in live THEN h.parent[n] ELSE Null]]

\* new BinarySearchTree(): no node has been constructed yet
Init ==
    /\ root = Null
    /\ size = 0
    /\ key = [n \in Nodes |-> 0]
    /\ left = [n \in Nodes |-> Null]
    /\ right = [n \in Nodes |-> Null]
    /\ parent = [n \in Nodes |-> Null]
    /\ alloc = {}
    /\ held = Null
    /\ values = {}
    /\ call = "new"
    /\ err = ""
    /\ ret = "undefined"

SetHeap(h) ==
    /\ root' = h.root
    /\ size' = h.size
    /\ key' = h.key
    /\ left' = h.left
    /\ right' = h.right
    /\ parent' = h.parent
    /\ alloc' = h.alloc

\* bst.insert(k); the caller has dropped the reference that the previous
\* delete left with it
Insert(k) ==
    /\ call' = "insert"
    /\ held' = Null
    /\ LET r == insert(collect(Heap, Null), k)
       IN /\ err' = r.err
          /\ ret' = IF r.err = "" THEN "undefined" ELSE "none"
          /\ values' = IF r.err = "" THEN values \cup {k} ELSE values
          /\ SetHeap(r.heap)

\* bst.delete(k): node = search(k), then del(node); the reference that the
\* previous delete left with the caller is dropped
Delete(k) ==
    /\ call' = "delete"
    /\ err' = ""
    /\ ret' = "undefined"
    /\ held' = search(Heap, k)
    /\ values' = values \ {k}
    /\ SetHeap(collect(delete(Heap, k), search(Heap, k)))

Next ==
    \/ \E k \in Keys : Insert(k)
    \/ \E k \in Keys : Delete(k)

Spec == Init /\ [][Next]_vars

\* ---- properties ----

\* the nodes reachable from root through left and right links, by levels
RECURSIVE reachFrom(_, _, _)
reachFrom(h, frontier, seen) ==
    IF frontier = {} THEN seen
    ELSE LET s1 == seen \cup frontier
             nxt == {h.left[n] : n \in frontier} \cup {h.right[n] : n \in frontier}
         IN reachFrom(h, (nxt \ {Null}) \ s1, s1)

Reachable(h) == reachFrom(h, {h.root} \ {Null}, {})

\* C1: starting from the empty tree, checkInvariant() returns true after
\* every insert and delete (a rejected duplicate insert leaves the tree as it
\* was, so the statement holds of every reachable state).
C1_InvariantAfterEveryOp == checkInvariant(Heap) = TRUE

\* a delete has removed a node of a four-node tree and the check still passes
C1_Witness ==
    /\ call = "delete"
    /\ held # Null
    /\ size = 3
    /\ checkInvariant(Heap) = TRUE

\* C2: in every reachable state, failed inserts and deletes of absent keys
\* included, size() is the number of nodes reachable from root.
C2_SizeIsReachableCount == size = Cardinality(Reachable(Heap))

\* a duplicate insert into a two-node tree was just rejected
C2_Witness ==
    /\ call = "insert"
    /\ err = "Duplicate key"
    /\ values # {}
    /\ size = 2
    /\ Cardinality(Reachable(Heap)) = 2

\* C3: search(k) returns a node with key k exactly when k was inserted
\* successfully and not deleted since, and null otherwise.  (search is an
\* operator on the heap: it has no assignment to any field.)
C3_SearchFindsLiveKeys ==
    \A k \in Keys :
        LET n == search(Heap, k)
        IN IF k \in values
           THEN n \in Reachable(Heap) /\ key[n] = k
           ELSE n = Null

\* the key of the node just removed is no longer found, a key that is left
\* is found
C3_Witness ==
    /\ size = 2
    /\ call = "delete"
    /\ held # Null
    /\ key[held] \notin values
    /\ search(Heap, key[held]) = Null
    /\ \E k \in values : key[search(Heap, k)] = k

\* the tree is the same in heaps pre and post: root, size, the nodes of the
\* tree and each one's key, left, right and parent
SameTree(pre, post) ==
    /\ post.root = pre.root
    /\ post.size = pre.size
    /\ Reachable(post) = Reachable(pre)
    /\ \A n \in Reachable(pre) :
           /\ post.key[n] = pre.key[n]
           /\ post.left[n] = pre.left[n]
           /\ post.right[n] = pre.right[n]
           /\ post.parent[n] = pre.parent[n]

\* C4: insert(k) with k already in the tree throws the duplicate-key error
\* and leaves root, size and every node's key, left, right and parent as
\* they were.
C4_DuplicateInsertRejected ==
    [][\A k \in Keys :
          (search(Heap, k) # Null /\ Insert(k))
              => err' = "Duplicate key" /\ SameTree(Heap, Heap')]_vars

\* a duplicate insert into a three-node tree has just been rejected
C4_Witness ==
    /\ call = "insert"
    /\ err = "Duplicate key"
    /\ size = 3
    /\ values # Keys

\* C5: delete(k) of a present key removes exactly one node: size is one
\* less, search(k) is null afterwards, every other present key is still
\* found at its node, and checkInvariant() still returns true.
C5_DeleteRemovesOneNode ==
    [][\A k \in Keys :
          (search(Heap, k) # Null /\ Delete(k))
              => LET pre == Heap
                     post == Heap'
                 IN /\ post.size = pre.size - 1
                    /\ Reachable(post) = Reachable(pre) \ {search(pre, k)}
                    /\ search(post, k) = Null
                    /\ \A j \in Keys \ {k} :
                           search(pre, j) # Null
                               => search(post, j) = search(pre, j)
                    /\ checkInvariant(post) = TRUE]_vars

\* the node just removed had two children and its successor was not its
\* right child
C5_Witness ==
    /\ call = "delete"
    /\ size = 3
    /\ held # Null
    /\ search(Heap, key[held]) = Null
    /\ left[held] # Null
    /\ right[held] # Null
    /\ parent[held] = Null
    /\ root # right[held]

\* C6: delete(k) of a key that is not in the tree, the empty tree included,
\* changes nothing: size, root and every node's links stay as they were.
C6_DeleteAbsentIsNoOp ==
    [][\A k \in Keys :
          (search(Heap, k) = Null /\ Delete(k))
              => SameTree(Heap, Heap')]_vars

\* the last delete found no node for its key, in a tree of two or more
C6_Witness ==
    /\ call = "delete"
    /\ held = Null
    /\ size >= 2

\* the keys of a sequence of nodes
KeysOf(nodes) == [i \in 1..Len(nodes) |-> key[nodes[i]]]

\* C7: inOrderKeys() returns one node per key in the tree, each once, in
\* strictly ascending key order.
C7_InOrderIsSorted ==
    LET ks == KeysOf(inOrderKeys(Heap))
    IN /\ Len(ks) = Cardinality(values)
       /\ {ks[i] : i \in 1..Len(ks)} = values
       /\ \A i \in 1..(Len(ks) - 1) : ks[i] < ks[i + 1]
       /\ \A i, j \in 1..Len(ks) :
              i # j => inOrderKeys(Heap)[i] # inOrderKeys(Heap)[j]

\* three keys are left after a removal, the root has both children
C7_Witness ==
    /\ call = "delete"
    /\ held # Null
    /\ size = 3
    /\ root # Null
    /\ left[root] # Null
    /\ right[root] # Null
    /\ Len(inOrderKeys(Heap)) = 3

\* C8: for keys a < b adjacent in the sorted order of the present keys,
\* successor(a) is the node of b and predecessor(b) the node of a; the
\* predecessor of the smallest and the successor of the largest key are
\* null; for a key that is not in the tree both are null.
C8_PredSuccAdjacent ==
    /\ \A a, b \in values :
           (a < b /\ \A c \in values : ~(a < c /\ c < b))
               => /\ successor(Heap, a) = search(Heap, b)
                  /\ predecessor(Heap, b) = search(Heap, a)
    /\ \A a \in values :
           /\ (\A c \in values : a <= c) => predecessor(Heap, a) = Null
           /\ (\A c \in values : c <= a) => successor(Heap, a) = Null
    /\ \A k \in Keys \ values :
           predecessor(Heap, k) = Null /\ successor(Heap, k) = Null

\* a successor found by the upward walk more than one level up, and one
\* found as the minimum of a right branch below the right child
C8_Witness ==
    /\ size = 4
    /\ \E a \in values :
           LET n == search(Heap, a)
           IN /\ right[n] = Null
              /\ successor(Heap, a) # Null
              /\ successor(Heap, a) # parent[n]
    /\ \E a \in values :
           LET n == search(Heap, a)
           IN /\ right[n] # Null
              /\ successor(Heap, a) # right[n]

\* C9: on a non-empty tree min() returns the node of the smallest key, which
\* has no left child, and max() the node of the largest key, which has no
\* right child; on the empty tree, or for a null subtree, both return null.
C9_MinMax ==
    /\ root # Null =>
           /\ key[min(Heap, Undefined)] \in values
           /\ \A k \in values : key[min(Heap, Undefined)] <= k
           /\ left[min(Heap, Undefined)] = Null
           /\ key[max(Heap, Undefined)] \in values
           /\ \A k \in values : k <= key[max(Heap, Undefined)]
           /\ right[max(Heap, Undefined)] = Null
    /\ root = Null =>
           min(Heap, Undefined) = Null /\ max(Heap, Undefined) = Null
    /\ min(Heap, Null) = Null
    /\ max(Heap, Null) = Null

\* the smallest key sits two levels below a root that has both children
C9_Witness ==
    /\ size = 4
    /\ right[root] # Null
    /\ left[root] # Null
    /\ parent[min(Heap, Undefined)] = left[root]
    /\ max(Heap, Undefined) = right[root]

\* the keys of the subtree of node in pre-order: node, left subtree, right
\* subtree
RECURSIVE PreOrderOf(_, _)
PreOrderOf(h, node) ==
    IF node = Null THEN <<>>
    ELSE <<h.key[node]>> \o PreOrderOf(h, h.left[node])
                         \o PreOrderOf(h, h.right[node])

\* C10: preOrderKeys() returns the keys in pre-order: the key of a node, then
\* the keys of its left subtree, then the keys of its right subtree.
C10_PreOrder == preOrderKeys(Heap) = PreOrderOf(Heap, root)

\* ---- keys altered from outside ----

\* node.key = k, assigned directly by the caller to a node of the tree; one
\* key is altered, and the altered tree is what checkInvariant is asked about
AlterKey(n, k) ==
    /\ call # "alter"
    /\ n \in Reachable(Heap)
    /\ k # key[n]
    /\ key' = [key EXCEPT ![n] = k]
    /\ call' = "alter"
    /\ UNCHANGED <<root, size, left, right, parent, alloc, held, values, err, ret>>

\* insert and delete build the tree; they are not followed further once the
\* caller has altered a key or passed del a node that was removed
InsertBefore(k) == call \notin {"alter", "del"} /\ Insert(k)

DeleteBefore(k) == call \notin {"alter", "del"} /\ Delete(k)

NextAltered ==
    \/ \E k \in Keys : InsertBefore(k)
    \/ \E k \in Keys : DeleteBefore(k)
    \/ \E n \in Nodes : \E k \in Keys : AlterKey(n, k)

SpecAltered == Init /\ [][NextAltered]_vars

\* some node of the tree has a left child whose key is not strictly less, or
\* a right child whose key is not strictly greater, than its own
LocalViolation(h) ==
    \E n \in Reachable(h) :
        \/ h.left[n] # Null /\ ~(h.key[h.left[n]] < h.key[n])
        \/ h.right[n] # Null /\ ~(h.key[h.right[n]] > h.key[n])

\* C11: checkInvariant() returns false whenever some reachable node has a
\* left child whose key is not strictly less than its own, or a right child
\* whose key is not strictly greater, equal keys included.
C11_LocalViolationReported ==
    LocalViolation(Heap) => checkInvariant(Heap) = FALSE

\* the nodes of the subtree of node
Subtree(h, node) == reachFrom(h, {node} \ {Null}, {})

\* the BST invariant: for every node, all left-subtree keys < node key < all
\* right-subtree keys
IsBST(h) ==
    \A n \in Reachable(h) :
        /\ \A m \in Subtree(h, h.left[n]) : h.key[m] < h.key[n]
        /\ \A m \in Subtree(h, h.right[n]) : h.key[m] > h.key[n]

\* C12: when every parent/child pair is locally ordered, checkInvariant()
\* still returns false if the BST invariant is broken further down (a key on
\* the wrong side of an ancestor, or the same key at two nodes): it returns
\* true only if the BST invariant holds.
C12_NonLocalViolationReported ==
    (~LocalViolation(Heap) /\ ~IsBST(Heap)) => checkInvariant(Heap) = FALSE

\* ---- BstNode objects linked by hand ----
LooseKeys == 1 .. MaxLoose

Values == Nodes \cup {Null, Undefined, PlainObject}

\* what a caller can pass to addLeft and addRight: an object that exists,
\* or one of the values that are not nodes
Arguments == alloc \cup {Null, Undefined, PlainObject}

\* new BstNode(k), for a key no constructed node has
NewNode(k) ==
    /\ k \notin alloc
    /\ call' = "BstNode"
    /\ err' = ""
    /\ SetHeap(newNode(Heap, freshNode(Heap, k), k))
    /\ UNCHANGED <<held, values, ret>>

\* this.addLeft(node)
AddLeft(this, node) ==
    /\ call' = "addLeft"
    /\ this \in alloc
    /\ node \in Arguments
    /\ err' = attachError(Heap, node)
    /\ SetHeap(addLeft(Heap, this, node))
    /\ UNCHANGED <<held, values, ret>>

\* this.addRight(node)
AddRight(this, node) ==
    /\ call' = "addRight"
    /\ this \in alloc
    /\ node \in Arguments
    /\ err' = attachError(Heap, node)
    /\ SetHeap(addRight(Heap, this, node))
    /\ UNCHANGED <<held, values, ret>>

NextNode ==
    \/ \E k \in LooseKeys : NewNode(k)
    \/ \E this \in Nodes : \E node \in Values : AddLeft(this, node)
    \/ \E this \in Nodes : \E node \in Values : AddRight(this, node)

SpecNode == Init /\ [][NextNode]_vars

\* the claim as stated: the parent of this node is unchanged whatever valid
\* node is attached
AttachedAsStated(pre, post, this, node, side, other) ==
    /\ post[side][this] = node
    /\ post.parent[node] = this
    /\ post[other][this] = pre[other][this]
    /\ post.parent[this] = pre.parent[this]

\* the same, with the parent of this node unchanged when the attached node
\* is another node
Attached(pre, post, this, node, side, other) ==
    /\ post[side][this] = node
    /\ post.parent[node] = this
    /\ post[other][this] = pre[other][this]
    /\ node # this => post.parent[this] = pre.parent[this]

Rejected(pre, post, this) ==
    /\ post.left[this] = pre.left[this]
    /\ post.right[this] = pre.right[this]
    /\ post.parent[this] = pre.parent[this]

\* C13 as stated: addLeft(child) with a valid node sets this.left to child
\* and child.parent to this and leaves right and parent of this node
\* unchanged; with a plain object, null or undefined it throws Invalid
\* argument and leaves left, right and parent unchanged; addRight likewise
C13_AttachAsStated ==
    \A this \in alloc : \A node \in Arguments :
        /\ LET post == addLeft(Heap, this, node)
           IN IF node \in alloc
              THEN /\ attachError(Heap, node) = ""
                   /\ AttachedAsStated(Heap, post, this, node, "left", "right")
              ELSE /\ attachError(Heap, node) = "Invalid argument"
                   /\ Rejected(Heap, post, this)
        /\ LET post == addRight(Heap, this, node)
           IN IF node \in alloc
              THEN /\ attachError(Heap, node) = ""
                   /\ AttachedAsStated(Heap, post, this, node, "right", "left")
              ELSE /\ attachError(Heap, node) = "Invalid argument"
                   /\ Rejected(Heap, post, this)

\* C13: in every arrangement of nodes and for every node this of it,
\* addLeft(child) with a valid node sets this.left to child and
\* child.parent to this, leaves this.right unchanged and, when child is
\* another node than this one, leaves this.parent unchanged; with a plain
\* object, null or undefined it throws Invalid argument and leaves left,
\* right and parent of the node unchanged; addRight is symmetric
C13_Attach ==
    \A this \in alloc : \A node \in Arguments :
        /\ LET post == addLeft(Heap, this, node)
           IN IF node \in alloc
              THEN /\ attachError(Heap, node) = ""
                   /\ Attached(Heap, post, this, node, "left", "right")
              ELSE /\ attachError(Heap, node) = "Invalid argument"
                   /\ Rejected(Heap, post, this)
        /\ LET post == addRight(Heap, this, node)
           IN IF node \in alloc
              THEN /\ attachError(Heap, node) = ""
                   /\ Attached(Heap, post, this, node, "right", "left")
              ELSE /\ attachError(Heap, node) = "Invalid argument"
                   /\ Rejected(Heap, post, this)

\* a node that had a left child attached has thrown on an invalid right one
C13_Witness ==
    /\ call = "addRight"
    /\ err = "Invalid argument"
    /\ \E n \in alloc :
          /\ left[n] \in alloc \ {n}
          /\ parent[left[n]] = n
          /\ right[n] = Null

\* ---- parent links ----

\* C14: in every state reached from the empty tree by insert and delete,
\* the root has no parent, every other reachable node has one, the parent
\* of every left and right child is the node that owns it, and the parent
\* of a reachable node is a reachable node, never a removed one
C14_ParentsMirrorLinks ==
    LET R == Reachable(Heap)
    IN /\ root # Null => parent[root] = Null
       /\ \A n \in R \ {root} : parent[n] # Null
       /\ \A n \in R :
             /\ left[n] # Null => parent[left[n]] = n
             /\ right[n] # Null => parent[right[n]] = n
             /\ parent[n] # Null => parent[n] \in R

\* a root with both children has been deleted, and its successor, which was
\* not its right child, is the root now
C14_Witness ==
    /\ call = "delete"
    /\ held # Null
    /\ left[held] # Null
    /\ right[held] # Null
    /\ root \notin {Null, right[held]}
    /\ left[root] # Null
    /\ right[root] # Null
    /\ \E n \in Reachable(Heap) : parent[n] # Null /\ parent[parent[n]] # Null

\* ---- delete of a node with two children ----

\* where node n hangs: its parent and the side, or the root
Position(h, n) ==
    [owner |-> h.parent[n],
     side |-> IF h.parent[n] = Null THEN "root"
              ELSE IF h.left[h.parent[n]] = n THEN "left" ELSE "right"]

\* the node at a position, null for none
Occupant(h, pos) ==
    IF pos.side = "root" THEN h.root ELSE h[pos.side][pos.owner]

\* the node with the smallest key of the subtree of node
SmallestOf(h, node) ==
    CHOOSE m \in Subtree(h, node) :
        \A o \in Subtree(h, node) : h.key[m] <= h.key[o]

\* C15: when delete(k) removes a node with both children, the node's former
\* position is afterwards occupied by the node s that held the smallest key
\* of its right subtree, and s.left is the removed node's former left
\* subtree; if s was not the removed node's right child, the former right
\* subtree of s occupies the former position of s and the removed node's
\* former right child is s.right; every other left and right link is as it
\* was
C15_TwoChildrenDelete ==
    [][\A k \in Keys :
          (search(Heap, k) # Null /\ Delete(k))
              => LET pre == Heap
                     post == Heap'
                     n == search(pre, k)
                 IN (pre.left[n] # Null /\ pre.right[n] # Null)
                     => LET s == SmallestOf(pre, pre.right[n])
                            moved == {Position(pre, n), Position(pre, s)}
                        IN /\ Occupant(post, Position(pre, n)) = s
                           /\ post.left[s] = pre.left[n]
                           /\ IF s # pre.right[n]
                              THEN /\ Occupant(post, Position(pre, s)) = pre.right[s]
                                   /\ post.right[s] = pre.right[n]
                              ELSE post.right[s] = pre.right[s]
                           /\ \A m \in Reachable(pre) \ {s} :
                                 \A side \in {"left", "right"} :
                                    [owner |-> m, side |-> side] \notin moved
                                       => post[side][m] = pre[side][m]]_vars

\* a root with two children was removed; its successor, the root now, was
\* not its right child and has left its own place to another node
C15_Witness ==
    /\ call = "delete"
    /\ size = 4
    /\ held # Null
    /\ parent[held] = Null
    /\ left[held] # Null
    /\ right[held] # Null
    /\ root \notin {Null, right[held]}
    /\ left[root] = left[held]
    /\ right[root] = right[held]
    /\ left[right[held]] # Null

\* ---- del of a node that was removed ----

\* n = bst.search(k); bst.delete(k); bst.del(n): the caller still holds the
\* node that the last delete removed, and passes it to del
DelStale ==
    /\ call = "delete"
    /\ held # Null
    /\ call' = "del"
    /\ err' = ""
    /\ ret' = "undefined"
    /\ SetHeap(del(Heap, held))
    /\ UNCHANGED <<held, values>>

NextStale ==
    \/ \E k \in Keys : InsertBefore(k)
    \/ \E k \in Keys : DeleteBefore(k)
    \/ DelStale

SpecStale == Init /\ [][NextStale]_vars

\* C16: del(node) with a node that an earlier delete removed leaves root,
\* size and every reachable node's links unchanged, so that size() is still
\* the number of reachable nodes
C16_StaleDelIsNoOp ==
    [][DelStale
         => LET pre == Heap
                post == Heap'
            IN /\ SameTree(pre, post)
               /\ post.size = Cardinality(Reachable(post))]_vars

\* ---- insertOld ----

\* bst.insertOld(k); a rejected duplicate has counted all the same, and the
\* calls are followed while the count has not run past the keys
InsertOld(k) ==
    /\ call' = "insertOld"
    /\ size <= MaxKey
    /\ held' = Null
    /\ LET r == insertOld(collect(Heap, Null), k)
       IN /\ err' = r.err
          /\ ret' = r.ret
          /\ values' = IF r.err = "" THEN values \cup {k} ELSE values
          /\ SetHeap(r.heap)

NextOld ==
    \/ \E k \in Keys : InsertOld(k)
    \/ \E k \in Keys : Delete(k)

SpecOld == Init /\ [][NextOld]_vars

\* C17: insertOld(k) returns true and k is in the tree afterwards when k
\* was not in the tree, empty or not; it returns false and the tree has the
\* nodes it had when k was already there
C17_InsertOldReports ==
    [][\A k \in Keys :
          InsertOld(k)
              => LET pre == Heap
                     post == Heap'
                 IN IF search(pre, k) = Null
                    THEN /\ ret' = "true"
                         /\ search(post, k) # Null
                    ELSE /\ ret' = "false"
                         /\ Reachable(post) = Reachable(pre)
                         /\ \A n \in Reachable(pre) :
                               /\ post.left[n] = pre.left[n]
                               /\ post.right[n] = pre.right[n]]_vars

====
